---------------------------- MODULE Spec2Model ----------------------------
(***************************************************************************)
(* Model of the kernel shared-memory object of                             *)
(* src/core/hle/kernel/shared_memory.cpp: the two creation paths, Map,     *)
(* Unmap and the destructor, over a physical region allocator and one      *)
(* address space per process.                                              *)
(*                                                                         *)
(* Units.  Every address, offset and size is counted in pages of 0x1000    *)
(* bytes: the address-space manager only accepts page-aligned ranges, so   *)
(* a u32 byte quantity x is the page quantity x / 0x1000 and u32           *)
(* arithmetic (mod 2^32 bytes) is arithmetic mod 2^20 pages.               *)
(* Permissions keep their u32 bit encoding.                                *)
(***************************************************************************)
EXTENDS Integers, Sequences, FiniteSets, TLC

VARIABLES
    obj,          \* object id -> the SharedMemory object's fields
    vm,           \* process -> its address space: mapped page -> [state, perm, mem]
    alive,        \* process -> whether the process object still exists
    memory_used,  \* process -> Process::memory_used
    free_blocks,  \* region -> MemoryRegionInfo::free_blocks, as a set of FCRAM pages
    alloc_log,    \* object id -> FCRAM pages the allocator handed out at its creation
    free_log,     \* object id -> the Free calls its destructor made, in order
    last,         \* the last kernel call: its operation, arguments and result
    fault,        \* "none", or the fatal condition / undefined behaviour hit
    calls         \* number of kernel calls made so far

vars == <<obj, vm, alive, memory_used, free_blocks, alloc_log, free_log, last, fault,
          calls>>

----------------------------------------------------------------------------
(* Bounds of the model. *)

\* Number of object slots (objects created in one run); slots are not reused.
MaxObjs == 2
\* Largest object size, in pages.
MaxSize == 2
\* Number of kernel calls in one run.
MaxCalls == 4

Objs == 1..MaxObjs
Sizes == 1..MaxSize

----------------------------------------------------------------------------
(* Program constants that the source file uses and other files define. *)

\* u32 wraps at 2^32 bytes = 2^20 pages.
U32 == 1048576
\* Memory::PROCESS_IMAGE_VADDR = 0x00100000
PROCESS_IMAGE_VADDR == 256
\* Memory::HEAP_VADDR = 0x08000000
HEAP_VADDR == 32768
\* Memory::SHARED_MEMORY_VADDR_END = 0x14000000
SHARED_MEMORY_VADDR_END == 81920
\* Memory::LINEAR_HEAP_VADDR = 0x14000000
LINEAR_HEAP_VADDR == 81920
\* VMManager::MAX_ADDRESS = 0x80000000
MAX_ADDRESS == 524288

\* enum class MemoryPermission : u32
None == 0
Read == 1
Write == 2
ReadWrite == 3
Execute == 4
ReadWriteExecute == 7
DontCare == 268435456

\* The read/write/execute lattice plus the DontCare sentinel.
PermValues == (0..7) \cup {DontCare}

\* Processes; NoProcess is the null owner.
NoProcess == 0
Procs == {1, 2}

\* enum class MemoryRegion
APPLICATION == 1
SYSTEM == 2
Regions == {APPLICATION, SYSTEM}

----------------------------------------------------------------------------
(* Bit operations on u32 values. *)

RECURSIVE BitAnd(_, _)
BitAnd(a, b) ==
    IF a = 0 \/ b = 0 THEN 0
    ELSE (a % 2) * (b % 2) + 2 * BitAnd(a \div 2, b \div 2)

\* a & ~b on u32 values
AndNot(a, b) == a - BitAnd(a, b)

\* SharedMemory::ConvertPermissions
ConvertPermissions(permission) == BitAnd(permission, ReadWriteExecute)

----------------------------------------------------------------------------
(* Sets of pages as ordered interval lists (boost::icl::interval_set).     *)

Min(S) == CHOOSE x \in S : \A y \in S : x <= y
Max(S) == CHOOSE x \in S : \A y \in S : x >= y

\* The end (exclusive) of the maximal run of S that starts at lo.
RECURSIVE RunEnd(_, _)
RunEnd(S, lo) == IF lo \in S THEN RunEnd(S, lo + 1) ELSE lo

\* The maximal intervals <<lower, upper>> of S in ascending order.
RECURSIVE Intervals(_)
Intervals(S) ==
    IF S = {} THEN << >>
    ELSE LET lo == Min(S)
             hi == RunEnd(S, lo)
         IN  << <<lo, hi>> >> \o Intervals(S \ (lo..(hi - 1)))

\* The pages of a list of extents <<first page, length>>, in order.
RECURSIVE BlockPages(_)
BlockPages(blocks) ==
    IF blocks = << >> THEN << >>
    ELSE LET b == Head(blocks)
         IN  [i \in 1..b[2] |-> b[1] + i - 1] \o BlockPages(Tail(blocks))

RECURSIVE SumLen(_)
SumLen(blocks) ==
    IF blocks = << >> THEN 0 ELSE Head(blocks)[2] + SumLen(Tail(blocks))

Range(f) == {f[i] : i \in DOMAIN f}

----------------------------------------------------------------------------
(* The physical region allocator (MemoryRegionInfo), from its interface:   *)
(* a region's free space is a set of FCRAM pages.                          *)

\* FCRAM layout of the model, in pages: APPLICATION is [0, 5), SYSTEM is [5, 9);
\* page 9, outside both, holds the program image of process 1.
ImagePage == 9

RegionPages(region) == IF region = APPLICATION THEN 0..4 ELSE 5..8

\* LinearAllocate(size): the first free interval, from the lowest address, that
\* holds size pages; its lower end is the offset.  ok = FALSE is std::nullopt.
RECURSIVE FirstFit(_, _)
FirstFit(ivs, size) ==
    IF ivs = << >> THEN [ok |-> FALSE, offset |-> 0]
    ELSE IF Head(ivs)[2] - Head(ivs)[1] >= size
         THEN [ok |-> TRUE, offset |-> Head(ivs)[1]]
         ELSE FirstFit(Tail(ivs), size)

LinearAllocate(free, size) == FirstFit(Intervals(free), size)

\* HeapAllocate(size): free intervals taken from the highest address down until
\* size pages are gathered; the empty set when the region cannot supply them.
RECURSIVE TakeFromTop(_, _)
TakeFromTop(ivs, needed) ==
    IF needed = 0 THEN {}
    ELSE IF ivs = << >> THEN {-1}
    ELSE LET iv == ivs[Len(ivs)]
         IN  IF iv[2] - iv[1] >= needed
             THEN (iv[2] - needed)..(iv[2] - 1)
             ELSE (iv[1]..(iv[2] - 1))
                  \cup TakeFromTop(SubSeq(ivs, 1, Len(ivs) - 1), needed - (iv[2] - iv[1]))

HeapAllocate(free, size) ==
    LET got == TakeFromTop(Intervals(free), size)
    IN  IF -1 \in got THEN {} ELSE got

\* Free(offset, size): the interval goes back to the region's free space.
RegionFree(free, offset, size) == free \cup (offset..(offset + size - 1))

----------------------------------------------------------------------------
(* The address-space manager (VMManager), from its interface.  An address  *)
(* space is a function from its mapped pages to [state, perm, mem]; every  *)
(* other page below MAX_ADDRESS is free.  A region (VMA) is a maximal run  *)
(* of pages with equal state and protection and consecutive backing, which *)
(* is what the manager's merging of adjacent regions maintains.            *)

SameVMA(space, a, b) ==
    /\ a \in DOMAIN space
    /\ b \in DOMAIN space
    /\ space[a].state = space[b].state
    /\ space[a].perm = space[b].perm
    /\ space[b].mem - space[a].mem = b - a

RECURSIVE VMALow(_, _)
VMALow(space, a) == IF SameVMA(space, a - 1, a) THEN VMALow(space, a - 1) ELSE a

RECURSIVE VMAHigh(_, _)
VMAHigh(space, a) == IF SameVMA(space, a, a + 1) THEN VMAHigh(space, a + 1) ELSE a

\* FindVMA(target), for target < MAX_ADDRESS: the region covering target.
FindVMA(space, target) ==
    IF target \in DOMAIN space
    THEN [type |-> "BackingMemory",
          base |-> VMALow(space, target),
          size |-> VMAHigh(space, target) - VMALow(space, target) + 1]
    ELSE LET below == {a \in DOMAIN space : a < target}
             above == {a \in DOMAIN space : a > target}
             lo == IF below = {} THEN 0 ELSE Max(below) + 1
             hi == IF above = {} THEN MAX_ADDRESS ELSE Min(above)
         IN  [type |-> "Free", base |-> lo, size |-> hi - lo]

\* ChangeMemoryState(target, size, expected_state, expected_perms, new_state,
\* new_perms): every region of the range must be in expected_state and hold
\* at least expected_perms; then the range takes new_state / new_perms.
ChangeMemoryState(space, target, size, expected_state, expected_perms, new_state, new_perms) ==
    LET range == target..(target + size - 1)
        okay == \A a \in range :
                    /\ a \in DOMAIN space
                    /\ space[a].state = expected_state
                    /\ BitAnd(space[a].perm, expected_perms) = expected_perms
    IN  IF okay
        THEN [rc |-> "Success",
              space |-> [a \in DOMAIN space |->
                            IF a \in range
                            THEN [space[a] EXCEPT !.state = new_state,
                                                  !.perm = new_perms]
                            ELSE space[a]]]
        ELSE [rc |-> "InvalidAddressState", space |-> space]

\* GetBackingBlocksForRange(address, size): one extent per region of the range.
RECURSIVE GetBackingBlocksForRange(_, _, _)
GetBackingBlocksForRange(space, address, size) ==
    IF size = 0 THEN << >>
    ELSE LET vma_end == VMAHigh(space, address) + 1
             interval_end == IF address + size < vma_end THEN address + size
                             ELSE vma_end
             interval_size == interval_end - address
         IN  << <<space[address].mem, interval_size>> >>
             \o GetBackingBlocksForRange(space, interval_end, size - interval_size)

\* MapBackingMemory(target, memory, size, state) followed by Reprotect of the
\* new region: binds size pages of backing memory at target.
MapBackingMemory(space, target, memory, size, state, perm) ==
    LET range == target..(target + size - 1)
    IN  [a \in DOMAIN space \cup range |->
            IF a \in range
            THEN [state |-> state, perm |-> perm, mem |-> memory + (a - target)]
            ELSE space[a]]

\* UnmapRange(target, size): fails when a page of the range is free; else the
\* whole range becomes free.
UnmapRange(space, target, size) ==
    LET range == target..(target + size - 1)
    IN  IF \A a \in range : a \in DOMAIN space
        THEN [rc |-> "Success",
              space |-> [a \in DOMAIN space \ range |-> space[a]]]
        ELSE [rc |-> "InvalidAddressState", space |-> space]

----------------------------------------------------------------------------
(* The SharedMemory object. *)

\* A slot that holds no object.  base_address and linear_heap_phys_offset are 0
\* until a creation path sets them.
NoObject ==
    [status |-> "none", owner_process |-> NoProcess, size |-> 0,
     permissions |-> 0, other_permissions |-> 0, base_address |-> 0,
     backing_blocks |-> << >>, holding_memory |-> {},
     linear_heap_phys_offset |-> 0]

Destroyed == [NoObject EXCEPT !.status = "destroyed"]

NoCall ==
    [op |-> "none", obj |-> 0, proc |-> NoProcess, address |-> 0, size |-> 0,
     permissions |-> 0, other_permissions |-> 0, result |-> "none"]

Call(op, o, p, address, permissions, other_permissions, result) ==
    [op |-> op, obj |-> o, proc |-> p, address |-> address, size |-> 0,
     permissions |-> permissions, other_permissions |-> other_permissions,
     result |-> result]

\* The emulator runs until a fatal assertion or a crash stops it; a run of the
\* model makes at most MaxCalls kernel calls.
Running ==
    /\ fault \in {"none", "dangling_owner"}
    /\ calls < MaxCalls
    /\ calls' = calls + 1

\* Objects take the slots in order.
NextSlot(o) == obj[o].status = "none" /\ \A k \in 1..(o - 1) : obj[k].status # "none"

EmptySpace == [a \in {} |-> 0]

\* Process 1 starts with one page of its program image, read/execute, and two
\* private read/write heap pages backed by FCRAM pages 0 and 2; process 2
\* starts with an empty address space.
InitSpace(p) ==
    IF p = 1
    THEN [a \in {PROCESS_IMAGE_VADDR, HEAP_VADDR, HEAP_VADDR + 1} |->
            IF a = PROCESS_IMAGE_VADDR
            THEN [state |-> "Code", perm |-> Read + Execute, mem |-> ImagePage]
            ELSE [state |-> "Private", perm |-> ReadWrite,
                  mem |-> IF a = HEAP_VADDR THEN 0 ELSE 2]]
    ELSE EmptySpace

Init ==
    /\ obj = [o \in Objs |-> NoObject]
    /\ vm = [p \in Procs |-> InitSpace(p)]
    /\ alive = [p \in Procs |-> TRUE]
    /\ memory_used = [p \in Procs |-> IF p = 1 THEN 2 ELSE 0]
    /\ free_blocks = [r \in Regions |-> IF r = APPLICATION THEN {1, 3, 4} ELSE {5, 7, 8}]
    /\ alloc_log = [o \in Objs |-> {}]
    /\ free_log = [o \in Objs |-> << >>]
    /\ last = NoCall
    /\ fault = "none"
    /\ calls = 0

----------------------------------------------------------------------------
(* KernelSystem::CreateSharedMemory *)

\* The object of the address == 0 branch, given the offset LinearAllocate returned.
FreshObject(owner_process, size, permissions, other_permissions, offset) ==
    [status |-> "live", owner_process |-> owner_process, size |-> size,
     permissions |-> permissions, other_permissions |-> other_permissions,
     base_address |-> 0,
     backing_blocks |-> << <<offset, size>> >>,
     holding_memory |-> offset..(offset + size - 1),
     linear_heap_phys_offset |-> offset]

\* Mutant: the borrowed object also records the owner's pages as its own.
BorrowedObject_Holds(owner_process, size, permissions, other_permissions, address, space) ==
    [status |-> "live", owner_process |-> owner_process, size |-> size,
     permissions |-> permissions, other_permissions |-> other_permissions,
     base_address |-> address,
     backing_blocks |-> GetBackingBlocksForRange(space, address, size),
     holding_memory |-> Range(BlockPages(GetBackingBlocksForRange(space, address, size))),
     linear_heap_phys_offset |-> 0]

\* The object of the address != 0 branch, read from the owner's address space
\* after its range changed state.
BorrowedObject(owner_process, size, permissions, other_permissions, address, space) ==
    [status |-> "live", owner_process |-> owner_process, size |-> size,
     permissions |-> permissions, other_permissions |-> other_permissions,
     base_address |-> address,
     backing_blocks |-> GetBackingBlocksForRange(space, address, size),
     holding_memory |-> {},
     linear_heap_phys_offset |-> 0]

\* address == 0: linear allocation in the given region.  The allocation failing
\* is a fatal assertion.  owner_process may be null.
CreateFresh(o, owner_process, size, permissions, other_permissions, region) ==
    LET a == LinearAllocate(free_blocks[region], size)
        c == [Call("Create", o, owner_process, 0, permissions, other_permissions,
                   "Success") EXCEPT !.size = size]
    IN  /\ Running
        /\ NextSlot(o)
        /\ owner_process # NoProcess => alive[owner_process]
        /\ IF a.ok
           THEN /\ obj' = [obj EXCEPT ![o] = FreshObject(owner_process, size, permissions,
                                                         other_permissions, a.offset)]
                /\ free_blocks' = [free_blocks EXCEPT ![region] =
                                      @ \ (a.offset..(a.offset + size - 1))]
                /\ alloc_log' = [alloc_log EXCEPT ![o] = a.offset..(a.offset + size - 1)]
                /\ memory_used' = IF owner_process # NoProcess
                                  THEN [memory_used EXCEPT ![owner_process] = @ + size]
                                  ELSE memory_used
                /\ last' = c
                /\ UNCHANGED fault
           ELSE /\ fault' = "fatal_alloc"
                /\ last' = [c EXCEPT !.result = "Fatal"]
                /\ UNCHANGED <<obj, free_blocks, alloc_log, memory_used>>
        /\ UNCHANGED <<vm, alive, free_log>>

\* Mutant: the range is locked with the unconverted permissions.
BorrowTransition_RawPermissions(space, address, size, permissions) ==
    ChangeMemoryState(space, address, size, "Private", ReadWrite, "Locked", permissions)

\* The state change of the address != 0 branch and its result code.
BorrowTransition(space, address, size, permissions) ==
    ChangeMemoryState(space, address, size, "Private", ReadWrite,
                      "Locked", ConvertPermissions(permissions))

\* address != 0: the owner's range goes from Private/ReadWrite to Locked.  The
\* callers pass a live process.  On the state-change error the object under
\* construction is dropped: it holds no memory and its base_address is still 0.
CreateBorrowed(o, owner_process, size, permissions, other_permissions, address) ==
    LET r == BorrowTransition(vm[owner_process], address, size, permissions)
        c == [Call("Create", o, owner_process, address, permissions, other_permissions,
                   r.rc) EXCEPT !.size = size]
    IN  /\ Running
        /\ NextSlot(o)
        /\ address # 0
        /\ alive[owner_process]
        /\ IF r.rc = "Success"
           THEN /\ vm' = [vm EXCEPT ![owner_process] = r.space]
                /\ obj' = [obj EXCEPT ![o] = BorrowedObject(owner_process, size, permissions,
                                                 other_permissions, address, r.space)]
           ELSE UNCHANGED <<vm, obj>>
        /\ last' = c
        /\ UNCHANGED <<alive, memory_used, free_blocks, alloc_log, free_log, fault>>

----------------------------------------------------------------------------
(* KernelSystem::CreateSharedMemoryForApplet *)

\* One extent per interval of the heap allocation, in ascending order.
ExtentsOf(pages) ==
    LET ivs == Intervals(pages)
    IN  [i \in 1..Len(ivs) |-> <<ivs[i][1], ivs[i][2] - ivs[i][1]>>]

\* Mutant: only the first interval of the allocation becomes an extent.
AppletObject_FirstExtent(offset, size, permissions, other_permissions, pages) ==
    [status |-> "live", owner_process |-> NoProcess, size |-> size,
     permissions |-> permissions, other_permissions |-> other_permissions,
     base_address |-> (HEAP_VADDR + offset) % U32,
     backing_blocks |-> << ExtentsOf(pages)[1] >>,
     holding_memory |-> pages,
     linear_heap_phys_offset |-> 0]

\* The applet object: one extent per interval, all intervals held, no owner,
\* base_address derived from the offset.
AppletObject(offset, size, permissions, other_permissions, pages) ==
    [status |-> "live", owner_process |-> NoProcess, size |-> size,
     permissions |-> permissions, other_permissions |-> other_permissions,
     base_address |-> (HEAP_VADDR + offset) % U32,
     backing_blocks |-> ExtentsOf(pages),
     holding_memory |-> pages,
     linear_heap_phys_offset |-> 0]

CreateSharedMemoryForApplet(o, offset, size, permissions, other_permissions) ==
    LET pages == HeapAllocate(free_blocks[SYSTEM], size)
        c == [Call("CreateForApplet", o, NoProcess, offset, permissions,
                   other_permissions, "Success") EXCEPT !.size = size]
    IN  /\ Running
        /\ NextSlot(o)
        /\ IF pages # {}
           THEN /\ obj' = [obj EXCEPT ![o] = AppletObject(offset, size, permissions,
                                                          other_permissions, pages)]
                /\ free_blocks' = [free_blocks EXCEPT ![SYSTEM] = @ \ pages]
                /\ alloc_log' = [alloc_log EXCEPT ![o] = pages]
                /\ last' = c
                /\ UNCHANGED fault
           ELSE /\ fault' = "fatal_alloc"
                /\ last' = [c EXCEPT !.result = "Fatal"]
                /\ UNCHANGED <<obj, free_blocks, alloc_log>>
        /\ UNCHANGED <<vm, alive, memory_used, free_log>>

----------------------------------------------------------------------------
(* SharedMemory::Map *)

\* own_other_permissions: the default set the request is checked against.
OwnOtherPermissions(s, target_process) ==
    IF target_process = s.owner_process THEN s.permissions ELSE s.other_permissions

\* Automatically allocated blocks can only be mapped with other_permissions = DontCare.
FreshNeedsDontCare(s, other_permissions) ==
    s.base_address = 0 /\ other_permissions # DontCare

\* Mutant: the request is always checked against the owner's permissions.
ExceedsDefault_OwnerOnly(s, target_process, permissions) ==
    AndNot(permissions, s.permissions) # 0

\* permissions & ~own_other_permissions
ExceedsDefault(s, target_process, permissions) ==
    AndNot(permissions, OwnOtherPermissions(s, target_process)) # 0

\* Mutant: the DontCare check on heap-backed blocks is missing.
BorrowedNeedsExplicit_Never(s, other_permissions) == FALSE

\* Heap-backed blocks can not be mapped with other_permissions = DontCare.
BorrowedNeedsExplicit(s, other_permissions) ==
    s.base_address # 0 /\ other_permissions = DontCare

\* this->permissions & ~other_permissions, unless other_permissions is DontCare
OwnerNeedsMore(s, other_permissions) ==
    other_permissions # DontCare /\ AndNot(s.permissions, other_permissions) # 0

\* The band check on a nonzero requested address, in u32 arithmetic.
OutsideBand(s, address) ==
    /\ address # 0
    /\ \/ address < HEAP_VADDR
       \/ (address + s.size) % U32 >= SHARED_MEMORY_VADDR_END

\* Mutant: every zero request gets the legacy address, whatever base_address is.
TargetAddress_AnyBase(s, address) ==
    IF address = 0
    THEN (s.linear_heap_phys_offset + LINEAR_HEAP_VADDR) % U32
    ELSE address

\* target_address: the legacy linear-heap address for a zero request on an
\* object whose base_address is zero, the requested address otherwise.
TargetAddress(s, address) ==
    IF s.base_address = 0 /\ address = 0
    THEN (s.linear_heap_phys_offset + LINEAR_HEAP_VADDR) % U32
    ELSE address

\* FindVMA returns the end iterator for a target at or above MAX_ADDRESS, and
\* Map dereferences what it returns without a test.
NoCoveringRegion(target_address) == target_address >= MAX_ADDRESS

\* What the read through the end iterator can lead to: the region test
\* rejects the call on what it read, or the emulator stops.
UndefinedLookupOutcomes == {"InvalidAddressState", "Crash"}

\* Mutant: only the type of the covering region is checked, not its end.
RegionUnavailable_TypeOnly(space, s, target_address) ==
    FindVMA(space, target_address).type # "Free"

\* The region covering the target is not free, or ends before target + size.
RegionUnavailable(space, s, target_address) ==
    LET vma == FindVMA(space, target_address)
    IN  \/ vma.type # "Free"
        \/ vma.base + vma.size < (target_address + s.size) % U32

\* Mutant: the caller's other_permissions are checked before the request.
MapResult_OtherFirst(s, space, target_process, address, permissions, other_permissions) ==
    IF FreshNeedsDontCare(s, other_permissions) THEN "InvalidCombination"
    ELSE IF OwnerNeedsMore(s, other_permissions) THEN "WrongPermission"
    ELSE IF ExceedsDefault(s, target_process, permissions) THEN "InvalidCombination"
    ELSE IF BorrowedNeedsExplicit(s, other_permissions) THEN "InvalidCombination"
    ELSE IF OutsideBand(s, address) THEN "InvalidAddress"
    ELSE IF NoCoveringRegion(TargetAddress(s, address)) THEN "Undefined"
    ELSE IF RegionUnavailable(space, s, TargetAddress(s, address))
         THEN "InvalidAddressState"
    ELSE "Success"

\* Mutant: the region check comes before the band check.
MapResult_RegionFirst(s, space, target_process, address, permissions, other_permissions) ==
    IF FreshNeedsDontCare(s, other_permissions) THEN "InvalidCombination"
    ELSE IF ExceedsDefault(s, target_process, permissions) THEN "InvalidCombination"
    ELSE IF BorrowedNeedsExplicit(s, other_permissions) THEN "InvalidCombination"
    ELSE IF OwnerNeedsMore(s, other_permissions) THEN "WrongPermission"
    ELSE IF NoCoveringRegion(TargetAddress(s, address)) THEN "Undefined"
    ELSE IF RegionUnavailable(space, s, TargetAddress(s, address))
         THEN "InvalidAddressState"
    ELSE IF OutsideBand(s, address) THEN "InvalidAddress"
    ELSE "Success"

\* The result code of Map: the checks in the order of the code.  "Undefined"
\* stands for the region lookup that has no defined result.
MapResult(s, space, target_process, address, permissions, other_permissions) ==
    IF FreshNeedsDontCare(s, other_permissions) THEN "InvalidCombination"
    ELSE IF ExceedsDefault(s, target_process, permissions) THEN "InvalidCombination"
    ELSE IF BorrowedNeedsExplicit(s, other_permissions) THEN "InvalidCombination"
    ELSE IF OwnerNeedsMore(s, other_permissions) THEN "WrongPermission"
    ELSE IF OutsideBand(s, address) THEN "InvalidAddress"
    ELSE IF NoCoveringRegion(TargetAddress(s, address)) THEN "Undefined"
    ELSE IF RegionUnavailable(space, s, TargetAddress(s, address))
         THEN "InvalidAddressState"
    ELSE "Success"

\* Mutant: interval_target is not advanced, every extent is bound at the target.
RECURSIVE BindBlocks_SameTarget(_, _, _, _)
BindBlocks_SameTarget(space, blocks, interval_target, permissions) ==
    IF blocks = << >> THEN space
    ELSE BindBlocks_SameTarget(MapBackingMemory(space, interval_target, Head(blocks)[1],
                                                Head(blocks)[2], "Shared",
                                                ConvertPermissions(permissions)),
                               Tail(blocks), interval_target, permissions)

\* The loop over backing_blocks: each extent is bound at interval_target as
\* Shared memory and reprotected to the converted request.
RECURSIVE BindBlocks(_, _, _, _)
BindBlocks(space, blocks, interval_target, permissions) ==
    IF blocks = << >> THEN space
    ELSE BindBlocks(MapBackingMemory(space, interval_target, Head(blocks)[1],
                                     Head(blocks)[2], "Shared",
                                     ConvertPermissions(permissions)),
                    Tail(blocks), interval_target + Head(blocks)[2], permissions)

\* Mutant: the extents are bound before the region check.
MapSpace_BindFirst(s, space, address, permissions, rc) ==
    IF rc \in {"Success", "InvalidAddressState"}
    THEN BindBlocks(space, s.backing_blocks, TargetAddress(s, address), permissions)
    ELSE space

\* The address space of the target after the call: bound on success,
\* untouched on every error return.
MapSpace(s, space, address, permissions, rc) ==
    IF rc = "Success"
    THEN BindBlocks(space, s.backing_blocks, TargetAddress(s, address), permissions)
    ELSE space

Map(o, target_process, address, permissions, other_permissions) ==
    LET s == obj[o]
        rc == MapResult(s, vm[target_process], target_process, address,
                        permissions, other_permissions)
    IN  /\ Running
        /\ s.status = "live"
        /\ alive[target_process]
        /\ \E result \in (IF rc = "Undefined" THEN UndefinedLookupOutcomes ELSE {rc}) :
              /\ vm' = [vm EXCEPT ![target_process] =
                           MapSpace(s, @, address, permissions, result)]
              /\ last' = Call("Map", o, target_process, address, permissions,
                              other_permissions, result)
              /\ fault' = IF result = "Crash" THEN "end_iterator" ELSE fault
        /\ UNCHANGED <<obj, alive, memory_used, free_blocks, alloc_log, free_log>>

----------------------------------------------------------------------------
(* SharedMemory::Unmap *)

\* Mutant: one page is unmapped, whatever the size of the object.
Unmap_OnePage(o, target_process, address) ==
    LET s == obj[o]
        r == UnmapRange(vm[target_process], address, 1)
    IN  /\ Running
        /\ s.status = "live"
        /\ alive[target_process]
        /\ vm' = [vm EXCEPT ![target_process] = r.space]
        /\ last' = Call("Unmap", o, target_process, address, 0, 0, r.rc)
        /\ UNCHANGED <<obj, alive, memory_used, free_blocks, alloc_log, free_log, fault>>

\* UnmapRange(address, size) on the target process, its result passed on.
Unmap(o, target_process, address) ==
    LET s == obj[o]
        r == UnmapRange(vm[target_process], address, s.size)
    IN  /\ Running
        /\ s.status = "live"
        /\ alive[target_process]
        /\ vm' = [vm EXCEPT ![target_process] = r.space]
        /\ last' = Call("Unmap", o, target_process, address, 0, 0, r.rc)
        /\ UNCHANGED <<obj, alive, memory_used, free_blocks, alloc_log, free_log, fault>>

----------------------------------------------------------------------------
(* SharedMemory::~SharedMemory *)

\* Mutant: only the first interval is freed.
DestructorFrees_FirstOnly(s) ==
    IF s.holding_memory = {} THEN << >> ELSE << ExtentsOf(s.holding_memory)[1] >>

\* The Free calls of the destructor, <<offset, size>> per interval of
\* holding_memory in ascending order.
DestructorFrees(s) == ExtentsOf(s.holding_memory)

\* The region the destructor returns the intervals to.
DestructorRegion == SYSTEM

RECURSIVE FreeAll(_, _)
FreeAll(free, frees) ==
    IF frees = << >> THEN free
    ELSE FreeAll(RegionFree(free, Head(frees)[1], Head(frees)[2]), Tail(frees))

\* The guard of the restoration step: the owner pointer is compared with null
\* only, so it also passes for an owner that no longer exists.
DestructorRestores(s) == s.base_address # 0 /\ s.owner_process # NoProcess

\* Mutant: the restoration expects the range to be Locked with read/write access.
RestoredSpace_ExpectsReadWrite(s, space) ==
    ChangeMemoryState(space, s.base_address, s.size, "Locked", ReadWrite,
                      "Private", ReadWrite).space

\* The owner's address space after the restoration step (its result is ignored).
RestoredSpace(s, space) ==
    ChangeMemoryState(space, s.base_address, s.size, "Locked", None,
                      "Private", ReadWrite).space

\* Dropping the last reference (the call record keeps the fields of the object
\* destroyed: owner, base_address and the permission pair).  With the owner gone the restoration step
\* reads through a dangling pointer: the run either goes on or crashes.
Destroy(o) ==
    LET s == obj[o]
    IN  /\ Running
        /\ s.status = "live"
        /\ free_blocks' = [free_blocks EXCEPT ![DestructorRegion] =
                              FreeAll(@, DestructorFrees(s))]
        /\ free_log' = [free_log EXCEPT ![o] = DestructorFrees(s)]
        /\ IF DestructorRestores(s)
           THEN IF alive[s.owner_process]
                THEN /\ vm' = [vm EXCEPT ![s.owner_process] = RestoredSpace(s, @)]
                     /\ UNCHANGED fault
                ELSE /\ fault' \in {"dangling_owner", "dangling_owner_crash"}
                     /\ UNCHANGED vm
           ELSE UNCHANGED <<vm, fault>>
        /\ obj' = [obj EXCEPT ![o] = Destroyed]
        /\ last' = Call("Destroy", o, s.owner_process, s.base_address, s.permissions,
                        s.other_permissions, "Success")
        /\ UNCHANGED <<alive, memory_used, alloc_log>>

----------------------------------------------------------------------------
(* A process exits: its address space goes with it.  Shared-memory objects *)
(* keep their owner_process pointer.                                       *)

DestroyProcess(p) ==
    /\ Running
    /\ alive[p]
    /\ alive' = [alive EXCEPT ![p] = FALSE]
    /\ vm' = [vm EXCEPT ![p] = EmptySpace]
    /\ last' = Call("DestroyProcess", 0, p, 0, 0, 0, "Success")
    /\ UNCHANGED <<obj, memory_used, free_blocks, alloc_log, free_log, fault>>

----------------------------------------------------------------------------
(* The system: several objects and both processes; the permission          *)
(* arguments are the ones a successful Map needs, plus one that fails.     *)

CreatePermissions == {ReadWrite}
CreateOtherPermissions == {ReadWrite}
MapPermissions == {Read}
MapOtherPermissions == {DontCare, ReadWrite}
BorrowAddresses == {HEAP_VADDR, HEAP_VADDR + 1}
MapAddresses == {0, HEAP_VADDR + 1, HEAP_VADDR + 2}
AppletOffsets == {0}
Owners == {NoProcess, 1}

\* Addresses an Unmap is tried with: the requested addresses and the legacy
\* address of the object.
UnmapAddresses(o) == (MapAddresses \cup {TargetAddress(obj[o], 0)}) \ {0}

Next ==
    \/ \E o \in Objs, owner \in Owners, size \in Sizes, region \in Regions,
          perm \in CreatePermissions, other \in CreateOtherPermissions :
            CreateFresh(o, owner, size, perm, other, region)
    \/ \E o \in Objs, owner \in Owners \ {NoProcess}, size \in Sizes,
          address \in BorrowAddresses,
          perm \in CreatePermissions, other \in CreateOtherPermissions :
            CreateBorrowed(o, owner, size, perm, other, address)
    \/ \E o \in Objs, offset \in AppletOffsets, size \in Sizes,
          perm \in CreatePermissions, other \in CreateOtherPermissions :
            CreateSharedMemoryForApplet(o, offset, size, perm, other)
    \/ \E o \in Objs, p \in Procs, address \in MapAddresses,
          perm \in MapPermissions, other \in MapOtherPermissions :
            Map(o, p, address, perm, other)
    \/ \E o \in Objs, p \in Procs : \E address \in UnmapAddresses(o) :
            Unmap(o, p, address)
    \/ \E o \in Objs : Destroy(o)
    \/ \E p \in Owners \ {NoProcess} : DestroyProcess(p)

Spec == Init /\ [][Next]_vars

----------------------------------------------------------------------------
(* The permission protocol: one object of any creation mode and any pair   *)
(* of permissions, and one Map or Unmap call on it with any arguments,     *)
(* over the whole read/write/execute lattice and DontCare.                 *)

Created == last.op \in {"Create", "CreateForApplet"} /\ last.result = "Success"

NextPerm ==
    \/ \E owner \in Owners, perm \in PermValues, other \in PermValues :
            CreateFresh(1, owner, 1, perm, other, SYSTEM)
    \/ \E perm \in PermValues, other \in PermValues :
            CreateBorrowed(1, 1, 1, perm, other, HEAP_VADDR)
    \/ \E perm \in PermValues, other \in PermValues :
            CreateSharedMemoryForApplet(1, 0, 1, perm, other)
    \/ \E p \in Procs, address \in {0, PROCESS_IMAGE_VADDR, HEAP_VADDR + 1},
          perm \in PermValues, other \in PermValues :
            Created /\ Map(1, p, address, perm, other)
    \/ \E p \in Procs, address \in {HEAP_VADDR, HEAP_VADDR + 1} :
            Created /\ Unmap(1, p, address)
    \/ last.op # "Map" /\ Destroy(1)

SpecPerm == Init /\ [][NextPerm]_vars

----------------------------------------------------------------------------
(* Address arithmetic: one object of any creation mode and size, mapped    *)
(* and unmapped at the addresses around the ends of the band, of the       *)
(* address space and of the u32 range.                                     *)

BandAddresses ==
    {0, HEAP_VADDR - 1, HEAP_VADDR, HEAP_VADDR + 2, MAX_ADDRESS}
    \cup {SHARED_MEMORY_VADDR_END - k : k \in 0..MaxSize}
    \cup {U32 - k : k \in 1..MaxSize}

\* Addresses an Unmap is tried with: those of the set whose range lies inside
\* the address space, and the legacy address of the object.
AddrUnmapAddresses ==
    {a \in (BandAddresses \cup {TargetAddress(obj[1], 0)}) \ {0} : a + MaxSize <= MAX_ADDRESS}

NextAddr ==
    \/ \E owner \in Owners, size \in Sizes, region \in Regions,
          perm \in CreatePermissions, other \in CreateOtherPermissions :
            CreateFresh(1, owner, size, perm, other, region)
    \/ \E size \in Sizes, perm \in CreatePermissions, other \in CreateOtherPermissions :
            CreateBorrowed(1, 1, size, perm, other, HEAP_VADDR)
    \/ \E size \in Sizes, perm \in CreatePermissions, other \in CreateOtherPermissions :
            CreateSharedMemoryForApplet(1, 0, size, perm, other)
    \/ \E p \in Procs, address \in BandAddresses,
          perm \in MapPermissions, other \in MapOtherPermissions :
            Map(1, p, address, perm, other)
    \/ \E p \in Procs : \E address \in AddrUnmapAddresses : Unmap(1, p, address)
    \/ Destroy(1)

SpecAddr == Init /\ [][NextAddr]_vars

----------------------------------------------------------------------------
(* Borrowing: process 1 owns heap pages of several protections, and        *)
(* objects are created over them, unmapped and destroyed.                  *)

\* Process 1 with four heap pages: two read/write, one read/write/execute,
\* one read-only (FCRAM pages 0, 2, 3, 4), next to its program image.
BorrowSpace ==
    [a \in {PROCESS_IMAGE_VADDR} \cup (HEAP_VADDR..(HEAP_VADDR + 3)) |->
        IF a = PROCESS_IMAGE_VADDR
        THEN [state |-> "Code", perm |-> Read + Execute, mem |-> ImagePage]
        ELSE [state |-> "Private",
              perm |-> IF a = HEAP_VADDR + 2 THEN ReadWriteExecute
                       ELSE IF a = HEAP_VADDR + 3 THEN Read ELSE ReadWrite,
              mem |-> IF a = HEAP_VADDR THEN 0 ELSE a - HEAP_VADDR + 1]]

InitBorrow ==
    /\ obj = [o \in Objs |-> NoObject]
    /\ vm = [p \in Procs |-> IF p = 1 THEN BorrowSpace ELSE EmptySpace]
    /\ alive = [p \in Procs |-> TRUE]
    /\ memory_used = [p \in Procs |-> IF p = 1 THEN 4 ELSE 0]
    /\ free_blocks = [r \in Regions |-> IF r = APPLICATION THEN {1} ELSE {5, 7, 8}]
    /\ alloc_log = [o \in Objs |-> {}]
    /\ free_log = [o \in Objs |-> << >>]
    /\ last = NoCall
    /\ fault = "none"
    /\ calls = 0

BorrowPermissions == {Read, ReadWrite, DontCare}
BorrowRangeAddresses == {PROCESS_IMAGE_VADDR} \cup ((HEAP_VADDR - 1)..(HEAP_VADDR + 4))

NextBorrow ==
    \/ \E o \in Objs, size \in Sizes, address \in BorrowRangeAddresses,
          perm \in BorrowPermissions, other \in CreateOtherPermissions :
            CreateBorrowed(o, 1, size, perm, other, address)
    \/ \E o \in Objs, address \in HEAP_VADDR..(HEAP_VADDR + 3) : Unmap(o, 1, address)
    \/ \E o \in Objs : Destroy(o)

SpecBorrow == InitBorrow /\ [][NextBorrow]_vars

----------------------------------------------------------------------------
(* Vocabulary of the properties. *)

\* a is a subset of b, as sets of permission bits.
PermSubset(a, b) == BitAnd(a, b) = a

\* The step just taken was a call of the given operation.
Called(op) == calls' # calls /\ last'.op = op

\* The last call was a Map and the object it was made on is s.
LastMap == last.op = "Map"
LastObj == obj[last.obj]

\* The offset the linear allocation returned when object o was created.
AllocatedOffset(o) == Min(alloc_log[o])

\* No page of [target, target + size) is mapped in the address space.
RangeIsFree(space, target, size) ==
    \A a \in target..(target + size - 1) : a \notin DOMAIN space /\ a < MAX_ADDRESS

----------------------------------------------------------------------------
(* C1..C4: the permission protocol of Map. *)

\* C1 (permission subset law): a Map that returns success had its requested
\* permissions inside the resolved default set (the object's permissions for
\* the owner, its other_permissions for any other process) and, unless the
\* caller passed DontCare, the object's permissions inside the caller's
\* other_permissions.
C1_PermissionSubsetLaw ==
    (LastMap /\ last.result = "Success") =>
        /\ PermSubset(last.permissions,
                      IF last.proc = LastObj.owner_process
                      THEN LastObj.permissions ELSE LastObj.other_permissions)
        /\ last.other_permissions # DontCare =>
               PermSubset(LastObj.permissions, last.other_permissions)

\* A non-owner maps a borrowed object with explicit other_permissions and a
\* nonempty request, and succeeds.
C1_Witness ==
    /\ LastMap /\ last.result = "Success"
    /\ last.proc # LastObj.owner_process
    /\ last.other_permissions = ReadWrite
    /\ last.permissions = Read
    /\ LastObj.permissions = Write

\* C2 (DontCare exclusivity): a Map on an object with base_address 0 with
\* other_permissions other than DontCare, and a Map on an object with a nonzero
\* base_address with other_permissions DontCare, both return InvalidCombination.
C2_DontCareExclusivity ==
    (/\ LastMap
     /\ \/ LastObj.base_address = 0 /\ last.other_permissions # DontCare
        \/ LastObj.base_address # 0 /\ last.other_permissions = DontCare)
    => last.result = "InvalidCombination"

\* A heap-backed object is mapped with DontCare and a request its default
\* allows, into a free range: only the DontCare rule rejects the call.
C2_Witness ==
    /\ LastMap /\ last.result = "InvalidCombination"
    /\ LastObj.base_address # 0 /\ last.other_permissions = DontCare
    /\ last.proc = 2 /\ last.address = HEAP_VADDR + 1
    /\ last.permissions = Read /\ LastObj.other_permissions = ReadWrite

\* C3 (scenario B): a freshly allocated object created with other_permissions
\* DontCare, mapped into a process other than its owner with permissions Read,
\* other_permissions DontCare and address 0 while the legacy range is free,
\* is mapped there read-only and the call succeeds.
C3_ScenarioB ==
    (/\ LastMap
     /\ LastObj.base_address = 0 /\ LastObj.other_permissions = DontCare
     /\ alloc_log[last.obj] # {}
     /\ last.proc # LastObj.owner_process
     /\ last.permissions = Read /\ last.other_permissions = DontCare
     /\ last.address = 0)
    => /\ last.result = "Success"
       /\ LET target == AllocatedOffset(last.obj) + LINEAR_HEAP_VADDR
          IN  /\ target \in DOMAIN vm[last.proc]
              /\ vm[last.proc][target].perm = Read

\* C4 (scenario D, as written): a borrowed object with permissions Read and
\* other_permissions Read, mapped into a process other than its owner with
\* requested permissions Write, fails with WrongPermission.
C4_ScenarioD_Original ==
    (/\ LastMap
     /\ LastObj.base_address # 0 /\ LastObj.owner_process # NoProcess
     /\ LastObj.permissions = Read /\ LastObj.other_permissions = Read
     /\ last.proc # LastObj.owner_process
     /\ last.permissions = Write)
    => last.result = "WrongPermission"

\* C4 (amended): the same call fails with InvalidCombination, for every
\* other_permissions and address the caller passes: the request is checked
\* against the default set before the caller's other_permissions are looked at.
C4_ScenarioD ==
    (/\ LastMap
     /\ LastObj.base_address # 0 /\ LastObj.owner_process # NoProcess
     /\ LastObj.permissions = Read /\ LastObj.other_permissions = Read
     /\ last.proc # LastObj.owner_process
     /\ last.permissions = Write)
    => last.result = "InvalidCombination"

\* The call of scenario D, made with other_permissions that do not cover the
\* object's own permissions.
C4_Witness ==
    /\ LastMap
    /\ LastObj.base_address # 0 /\ LastObj.owner_process = 1
    /\ LastObj.permissions = Read /\ LastObj.other_permissions = Read
    /\ last.proc = 2 /\ last.permissions = Write
    /\ last.other_permissions = Write
    /\ last.result = "InvalidCombination"

----------------------------------------------------------------------------
(* C5..C10: addresses, physical memory and destruction. *)

\* The effective target of the Map call recorded in c on object o: the legacy
\* address computed from the offset allocated at creation when the object's
\* base_address and the requested address are both 0, else the request.
EffectiveTarget(o, c) ==
    IF obj[o].base_address = 0 /\ c.address = 0
    THEN AllocatedOffset(o) + LINEAR_HEAP_VADDR
    ELSE c.address

PermissionOrBandError == {"InvalidCombination", "WrongPermission", "InvalidAddress"}

\* C5 (address containment): a Map that passed the permission and band checks
\* succeeds exactly when every page of [target, target + size) is free in the
\* target process, and returns InvalidAddressState otherwise; in particular a
\* range that overlaps pages bound by an earlier Map and not yet unmapped is
\* rejected with InvalidAddressState.
C5_AddressContainment ==
    [][(Called("Map") /\ last'.result \notin PermissionOrBandError) =>
          LET o == last'.obj
              p == last'.proc
              target == EffectiveTarget(o, last')
              size == obj[o].size
          IN  /\ last'.result = IF RangeIsFree(vm[p], target, size)
                                THEN "Success" ELSE "InvalidAddressState"
              /\ (\E a \in target..(target + size - 1) :
                      a \in DOMAIN vm[p] /\ vm[p][a].state = "Shared")
                 => last'.result = "InvalidAddressState"]_vars

\* A Map is rejected with InvalidAddressState because its range runs into a
\* page that a Map of another object bound: the first page of the range is
\* free, a later one is Shared and backed by memory that is not this object's.
C5_Witness ==
    /\ LastMap /\ last.result = "InvalidAddressState"
    /\ last.address \notin DOMAIN vm[last.proc]
    /\ \E a \in (last.address + 1)..(last.address + LastObj.size - 1) :
          /\ a \in DOMAIN vm[last.proc]
          /\ vm[last.proc][a].state = "Shared"
          /\ vm[last.proc][a].mem \notin Range(BlockPages(LastObj.backing_blocks))

\* The pages a list of Free calls <<offset, size>> covers.
FreedPages(frees) == UNION {(f[1])..(f[1] + f[2] - 1) : f \in Range(frees)}

\* C6 (allocation/free symmetry): once an object created by a fresh-allocation
\* path is destroyed, the pages passed to the allocator's Free are exactly the
\* pages allocated for it at creation, each passed once; before destruction
\* nothing of it is freed.
C6_AllocationFreeSymmetry ==
    \A o \in Objs :
        /\ obj[o].status # "destroyed" => free_log[o] = << >>
        /\ (obj[o].status = "destroyed" /\ alloc_log[o] # {}) =>
              /\ FreedPages(free_log[o]) = alloc_log[o]
              /\ SumLen(free_log[o]) = Cardinality(alloc_log[o])

\* An object allocated as two separate intervals was mapped and then destroyed.
C6_Witness ==
    \E o \in Objs :
        /\ obj[o].status = "destroyed"
        /\ Len(free_log[o]) = 2
        /\ \E p \in Procs : \E a \in DOMAIN vm[p] :
              vm[p][a].state = "Shared" /\ vm[p][a].mem \in alloc_log[o]

\* The step destroys a borrowed object s whose owner process is alive.
DestroysBorrowed(s) ==
    /\ Called("Destroy")
    /\ s.base_address # 0
    /\ s.owner_process # NoProcess
    /\ alive[s.owner_process]

OwnerRange(s) == (s.base_address)..(s.base_address + s.size - 1)

\* C7 (scenario E, as written): destroying a borrowed object while its owner is
\* alive leaves the owner's range [base_address, base_address + size) in state
\* Private with protection ReadWrite.
C7_BorrowedRestore_Original ==
    [][LET s == obj[last'.obj]
       IN  DestroysBorrowed(s) =>
              \A a \in OwnerRange(s) :
                  /\ a \in DOMAIN vm'[s.owner_process]
                  /\ vm'[s.owner_process][a].state = "Private"
                  /\ vm'[s.owner_process][a].perm = ReadWrite]_vars

\* C7 (amended): if the whole range is still Locked in the owner when the object
\* is destroyed, destruction returns it to Private / ReadWrite, for every
\* creation-time permissions, and changes nothing else; if some page of the
\* range has left the Locked state, destruction leaves the address space as it is.
C7_BorrowedRestore ==
    [][LET s == obj[last'.obj]
           owner == s.owner_process
       IN  DestroysBorrowed(s) =>
              IF \A a \in OwnerRange(s) :
                     a \in DOMAIN vm[owner] /\ vm[owner][a].state = "Locked"
              THEN /\ DOMAIN vm'[owner] = DOMAIN vm[owner]
                   /\ \A a \in DOMAIN vm[owner] :
                         vm'[owner][a] =
                             IF a \in OwnerRange(s)
                             THEN [state |-> "Private", perm |-> ReadWrite,
                                   mem |-> vm[owner][a].mem]
                             ELSE vm[owner][a]
              ELSE vm' = vm]_vars

\* A borrowed object created with permissions Read (its range was Locked with
\* read-only protection) has been destroyed and the range is Private / ReadWrite.
C7_Witness ==
    /\ last.op = "Destroy" /\ last.proc = 1 /\ last.address = HEAP_VADDR
    /\ last.permissions = Read
    /\ HEAP_VADDR \in DOMAIN vm[1]
    /\ vm[1][HEAP_VADDR].state = "Private" /\ vm[1][HEAP_VADDR].perm = ReadWrite

\* C8 (dangling-owner safety): the destruction of an object never operates on
\* an owner process that no longer exists.
C8_DanglingOwnerSafety ==
    fault \notin {"dangling_owner", "dangling_owner_crash"}

MapErrors == {"InvalidCombination", "WrongPermission", "InvalidAddress",
              "InvalidAddressState"}

\* C9 (no mutation on error): a Map that returns one of the four errors leaves
\* every address space, the physical allocator, the process counters and the
\* objects as they were.
C9_NoMutationOnError ==
    [][(Called("Map") /\ last'.result \in MapErrors) =>
          UNCHANGED <<obj, vm, free_blocks, memory_used, alive, alloc_log, free_log>>]_vars

\* A Map was rejected by the last of the checks, the region check.
C9_Witness ==
    /\ LastMap /\ last.result = "InvalidAddressState"
    /\ last.address \in DOMAIN vm[last.proc]

\* C10 (zero-address legacy placement): a successful Map binds exactly the
\* pages [target, target + size) in the target process, where target is the
\* allocation offset of the object plus the linear-heap base when the object
\* has base_address 0 and address 0 was requested, and the requested address
\* in every other case.
C10_ZeroAddressPlacement ==
    [][(Called("Map") /\ last'.result = "Success") =>
          LET o == last'.obj
              p == last'.proc
              target == EffectiveTarget(o, last')
          IN  (DOMAIN vm'[p]) \ (DOMAIN vm[p]) = target..(target + obj[o].size - 1)]_vars

\* The same object is mapped with address 0 into both processes, at the same
\* legacy address.
C10_Witness ==
    /\ LastMap /\ last.result = "Success" /\ last.address = 0 /\ last.proc = 2
    /\ LastObj.base_address = 0
    /\ LET target == AllocatedOffset(last.obj) + LINEAR_HEAP_VADDR
       IN  /\ target \in DOMAIN vm[1] /\ vm[1][target].mem = AllocatedOffset(last.obj)
           /\ target \in DOMAIN vm[2] /\ vm[2][target].mem = AllocatedOffset(last.obj)

----------------------------------------------------------------------------
(* C11..C20: object invariants, arithmetic and accounting. *)

\* C11 (size invariant): the lengths of the extents of backing_blocks of every
\* object add up to its size, whichever creation path made it and whatever
\* was called afterwards.
C11_SizeInvariant ==
    \A o \in Objs :
        obj[o].status = "live" =>
            /\ obj[o].size > 0
            /\ SumLen(obj[o].backing_blocks) = obj[o].size

\* An applet object made of two separate extents, after a Map or Unmap on it.
C11_Witness ==
    /\ last.op \in {"Map", "Unmap"}
    /\ LastObj.status = "live"
    /\ LastObj.holding_memory # {}
    /\ Len(LastObj.backing_blocks) = 2

\* C12 (ownership mode, as written): an object holds physical memory only if
\* its base_address is 0, and the destruction of an object with a nonzero
\* base_address frees nothing.
C12_OwnershipMode_Original ==
    /\ \A o \in Objs :
          (obj[o].status = "live" /\ obj[o].holding_memory # {}) => obj[o].base_address = 0
    /\ (last.op = "Destroy" /\ last.address # 0) => free_log[last.obj] = << >>

\* C12 (amended): an object of CreateSharedMemory holds physical memory exactly
\* when its base_address is 0, and a borrowed object (nonzero base_address, an
\* owner) frees nothing when destroyed; an applet object (no owner) has the
\* nonzero base_address HEAP_VADDR + offset and holds, and frees, its allocation.
C12_OwnershipMode ==
    /\ \A o \in Objs :
          obj[o].status = "live" =>
              /\ obj[o].base_address = 0 => obj[o].holding_memory # {}
              /\ (obj[o].base_address # 0 /\ obj[o].owner_process # NoProcess)
                     => obj[o].holding_memory = {}
              /\ (obj[o].base_address # 0 /\ obj[o].owner_process = NoProcess)
                     => /\ obj[o].holding_memory = alloc_log[o]
                        /\ obj[o].holding_memory # {}
    /\ (last.op = "Destroy" /\ last.address # 0) =>
          (free_log[last.obj] = << >>) = (last.proc # NoProcess)

\* A borrowed object has been destroyed while an applet object is alive.
C12_Witness ==
    /\ last.op = "Destroy" /\ last.address # 0 /\ last.proc # NoProcess
    /\ free_log[last.obj] = << >>
    /\ \E o \in Objs :
          /\ obj[o].status = "live"
          /\ obj[o].base_address # 0 /\ obj[o].owner_process = NoProcess

\* The checks of the Map protocol as the protocol words them, on the object s
\* and the arguments of the call c; TRUE when the check fails.
Check2Fails(s, c) == s.base_address = 0 /\ c.other_permissions # DontCare
Check3Fails(s, c) ==
    ~PermSubset(c.permissions,
                IF c.proc = s.owner_process THEN s.permissions ELSE s.other_permissions)
Check4Fails(s, c) == s.base_address # 0 /\ c.other_permissions = DontCare
Check5Fails(s, c) ==
    c.other_permissions # DontCare /\ ~PermSubset(s.permissions, c.other_permissions)
\* The range starts outside the band (where the band ends exactly is C14's subject).
Check6Fails(s, c) ==
    c.address # 0 /\ (c.address < HEAP_VADDR \/ c.address >= SHARED_MEMORY_VADDR_END)

\* C13 (error precedence): the result of Map is the error of the first failing
\* check in the order 2, 3, 4 (InvalidCombination), 5 (WrongPermission),
\* 6 (InvalidAddress), 8 (InvalidAddressState); WrongPermission is returned
\* exactly when checks 2-4 pass and the object's permissions are not inside an
\* other_permissions that is not DontCare.
C13_ErrorPrecedence ==
    [][Called("Map") =>
          LET c == last'
              s == obj[c.obj]
              early == Check2Fails(s, c) \/ Check3Fails(s, c) \/ Check4Fails(s, c)
          IN  /\ early => c.result = "InvalidCombination"
              /\ (c.result = "WrongPermission") = (~early /\ Check5Fails(s, c))
              /\ (~early /\ ~Check5Fails(s, c)) =>
                    c.result = IF Check6Fails(s, c) THEN "InvalidAddress"
                               ELSE IF ~RangeIsFree(vm[c.proc], EffectiveTarget(c.obj, c),
                                                    s.size)
                                    THEN "InvalidAddressState"
                               ELSE "Success"]_vars

\* A Map failed the band check on a page that is also occupied in the target:
\* the earlier check decided, InvalidAddress and not InvalidAddressState.
C13_Witness ==
    /\ LastMap /\ last.result = "InvalidAddress"
    /\ last.address \in DOMAIN vm[last.proc]

\* C14 (address band, 32-bit arithmetic): a Map with a nonzero address that
\* passed the permission checks returns InvalidAddress when some page of
\* [address, address + size) lies outside [HEAP_VADDR, SHARED_MEMORY_VADDR_END),
\* the end of the range taken without wrap-around, and does not return
\* InvalidAddress when the whole range lies inside the band.
C14_AddressBand ==
    [][(/\ Called("Map")
        /\ last'.address # 0
        /\ last'.result \notin {"InvalidCombination", "WrongPermission"}) =>
          LET address == last'.address
              size == obj[last'.obj].size
              inside == HEAP_VADDR <= address /\ address + size <= SHARED_MEMORY_VADDR_END
          IN  (last'.result = "InvalidAddress") = ~inside]_vars

\* C15 (effect of a successful Map): extent i of backing_blocks is bound at
\* the effective target plus the lengths of the extents before it, in state
\* Shared with the read/write/execute bits of the requested permissions; the
\* bindings cover exactly [target, target + size), which was free; no other
\* page of the target process and no other process changes.
C15_MapEffect ==
    [][(Called("Map") /\ last'.result = "Success") =>
          LET c == last'
              s == obj[c.obj]
              p == c.proc
              target == EffectiveTarget(c.obj, c)
              range == target..(target + s.size - 1)
              blocks == s.backing_blocks
          IN  /\ \A i \in 1..Len(blocks) :
                    LET start == target + SumLen(SubSeq(blocks, 1, i - 1))
                    IN  \A k \in 0..(blocks[i][2] - 1) :
                            /\ start + k \in DOMAIN vm'[p]
                            /\ vm'[p][start + k] =
                                   [state |-> "Shared", perm |-> c.permissions % 8,
                                    mem |-> blocks[i][1] + k]
              /\ range \cap DOMAIN vm[p] = {}
              /\ DOMAIN vm'[p] = DOMAIN vm[p] \cup range
              /\ \A a \in DOMAIN vm[p] : vm'[p][a] = vm[p][a]
              /\ \A q \in Procs \ {p} : vm'[q] = vm[q]]_vars

\* An object of two extents that are not adjacent in physical memory has been
\* mapped: the second page of the mapping is backed by the second extent.
C15_Witness ==
    /\ LastMap /\ last.result = "Success"
    /\ Len(LastObj.backing_blocks) = 2
    /\ LastObj.backing_blocks[2][1] # LastObj.backing_blocks[1][1] + 1
    /\ LET target == IF last.address = 0 /\ LastObj.base_address = 0
                     THEN AllocatedOffset(last.obj) + LINEAR_HEAP_VADDR
                     ELSE last.address
       IN  /\ target + 1 \in DOMAIN vm[last.proc]
           /\ vm[last.proc][target + 1].mem = LastObj.backing_blocks[2][1]

\* The FCRAM pages behind [address, address + size), in address order.
BackingOf(space, address, size) == [i \in 1..size |-> space[address + i - 1].mem]

\* C16 (borrow-existing creation): CreateSharedMemory with a nonzero address
\* succeeds exactly when every page of the owner's range is in state Private
\* and readable and writable.  On success the range is Locked with the
\* read/write/execute bits of permissions, backing_blocks are the extents
\* behind the range, holding_memory is empty, base_address is the address and
\* memory_used is unchanged; otherwise the state-change error is returned and
\* no object, address space or allocator state changes.
C16_BorrowCreation ==
    [][(Called("Create") /\ last'.address # 0) =>
          LET c == last'
              p == c.proc
              range == (c.address)..(c.address + c.size - 1)
              pre == \A a \in range :
                        /\ a \in DOMAIN vm[p]
                        /\ vm[p][a].state = "Private"
                        /\ PermSubset(ReadWrite, vm[p][a].perm)
              s == obj'[c.obj]
          IN  /\ (c.result = "Success") = pre
              /\ pre =>
                    /\ DOMAIN vm'[p] = DOMAIN vm[p]
                    /\ \A a \in DOMAIN vm[p] :
                          vm'[p][a] = IF a \in range
                                      THEN [state |-> "Locked", perm |-> c.permissions % 8,
                                            mem |-> vm[p][a].mem]
                                      ELSE vm[p][a]
                    /\ s.status = "live" /\ s.size = c.size /\ s.owner_process = p
                    /\ BlockPages(s.backing_blocks) = BackingOf(vm[p], c.address, c.size)
                    /\ s.holding_memory = {}
                    /\ s.base_address = c.address
                    /\ s.permissions = c.permissions
                    /\ s.other_permissions = c.other_permissions
              /\ ~pre => (c.result = "InvalidAddressState" /\ UNCHANGED <<obj, vm>>)
              /\ \A q \in Procs \ {p} : vm'[q] = vm[q]
              /\ UNCHANGED <<memory_used, free_blocks>>]_vars

\* An object was created with permissions DontCare over two pages, one
\* read/write and one read/write/execute, which are now Locked without access.
C16_Witness ==
    /\ last.op = "Create" /\ last.result = "Success"
    /\ last.address = HEAP_VADDR + 1 /\ last.size = 2 /\ last.permissions = DontCare
    /\ \A a \in {HEAP_VADDR + 1, HEAP_VADDR + 2} :
          vm[1][a].state = "Locked" /\ vm[1][a].perm = None

\* C17 (Map/Unmap round trip): Unmap removes exactly [address, address + size)
\* from the target process when the manager accepts the range and nothing
\* when it does not, returns the manager's result, and changes neither the
\* object nor another process nor the allocator.  An Unmap at the effective
\* target of the successful Map just made into the same process succeeds and
\* leaves the range free, and the same Map would succeed again.
C17_MapUnmapRoundTrip ==
    [][Called("Unmap") =>
          LET c == last'
              s == obj[c.obj]
              p == c.proc
              range == (c.address)..(c.address + s.size - 1)
              mapped == \A a \in range : a \in DOMAIN vm[p]
          IN  /\ UNCHANGED <<obj, free_blocks, memory_used>>
              /\ \A q \in Procs \ {p} : vm'[q] = vm[q]
              /\ c.result = IF mapped THEN "Success" ELSE "InvalidAddressState"
              /\ DOMAIN vm'[p] = IF mapped THEN DOMAIN vm[p] \ range ELSE DOMAIN vm[p]
              /\ \A a \in DOMAIN vm'[p] : vm'[p][a] = vm[p][a]
              /\ (/\ last.op = "Map" /\ last.result = "Success"
                  /\ last.obj = c.obj /\ last.proc = p
                  /\ c.address = EffectiveTarget(c.obj, last)) =>
                     /\ c.result = "Success"
                     /\ RangeIsFree(vm'[p], c.address, s.size)
                     /\ MapResult(s, vm'[p], p, last.address, last.permissions,
                                  last.other_permissions) = "Success"]_vars

\* A two-page object was mapped into process 2 at its legacy address and
\* unmapped again: the address space of process 2 is empty as at the start.
C17_Witness ==
    /\ last.op = "Unmap" /\ last.result = "Success" /\ last.proc = 2
    /\ LastObj.status = "live" /\ LastObj.size = 2 /\ LastObj.base_address = 0
    /\ last.address = AllocatedOffset(last.obj) + LINEAR_HEAP_VADDR
    /\ calls = 3
    /\ vm[2] = EmptySpace

\* C18 (region-matched free): the intervals an object frees go back to the
\* region they were allocated from, so the free space of a region never holds
\* a page of another region, and once no object is alive every region's free
\* space is what it was before the first creation.
C18_RegionMatchedFree ==
    /\ \A r \in Regions : free_blocks[r] \subseteq RegionPages(r)
    /\ (\A o \in Objs : obj[o].status # "live") =>
          /\ free_blocks[APPLICATION] = {1, 3, 4}
          /\ free_blocks[SYSTEM] = {5, 7, 8}

\* C19 (no mapped-but-freed memory): no FCRAM page is free in the physical
\* allocator while a mapping made by Map still binds it in some process.
C19_NoMappedButFreed ==
    \A p \in Procs : \A a \in DOMAIN vm[p] :
        vm[p][a].state = "Shared" =>
            \A r \in Regions : vm[p][a].mem \notin free_blocks[r]

\* The sizes of the live objects among 1..n that were freshly allocated by
\* CreateSharedMemory for owner p.
RECURSIVE OwnedFresh(_, _)
OwnedFresh(p, n) ==
    IF n = 0 THEN 0
    ELSE OwnedFresh(p, n - 1)
         + (IF /\ obj[n].status = "live"
               /\ obj[n].base_address = 0
               /\ obj[n].owner_process = p
            THEN obj[n].size ELSE 0)

\* C20 (memory_used balance): the counter of a process is its initial value
\* plus the sizes of the live objects freshly allocated for it as owner; it
\* counts nothing for borrowed, applet or ownerless objects and keeps nothing
\* of destroyed objects.
C20_MemoryUsedBalance ==
    \A p \in Procs :
        memory_used[p] = (IF p = 1 THEN 2 ELSE 0) + OwnedFresh(p, MaxObjs)

============================================================================
